---- MODULE Spec2Model ----
(***************************************************************************)
(* The Flux screensaver for Windows (windows/src).                         *)
(*   surface.rs: the monitors enumerated by run_flux are turned into       *)
(*     rendering surfaces by surface::build under one of three fill modes. *)
(*   main.rs: one instance per surface, then the event loop.               *)
(*   config.rs, config/v1.rs: the settings file, loaded and saved.         *)
(***************************************************************************)
EXTENDS Integers, Sequences, FiniteSets, TLC

VARIABLES monitors, fill_mode, pc, surfaces, panicked, previous

\* run_flux after build: the instances and the event loop.
VARIABLES run_mode, instances, created, todo, drawn, errors, last_event, result, entered

\* Surface::merge on its own: the operands and what merging them gives.
VARIABLES operands, merged

runVars == <<run_mode, instances, created, todo, drawn, errors, last_event, result, entered>>

mergeVars == <<operands, merged>>

\* The configuration: the directory main passes to Config::load, the file
\* <dir>/settings.json, the Config in memory, what from_string returned for the
\* file, the Config that save wrote, and the Problem that was logged last.
VARIABLES config_dir, file, config, decoded, saved, problem

configVars == <<config_dir, file, config, decoded, saved, problem>>

vars ==
    <<monitors, fill_mode, pc, surfaces, panicked, previous, runVars, mergeVars, configVars>>

(***************************************************************************)
(* Bounds of the model and the values the inputs are drawn from.           *)
(***************************************************************************)
MaxMonitors == 3

\* Width in bits of the machine integers of the model. The program's i32 and
\* u32 have 32 bits; TLC's own integers have 32 bits too and cannot hold a u32
\* or detect an i32 overflow, so the model keeps the two's complement
\* arithmetic and narrows the word.
IntBits == 16

IntMin == -(2^(IntBits - 1))
IntMax == 2^(IntBits - 1) - 1
UIntMod == 2^IntBits

\* A monitor this close to the right edge of the signed range makes x + width
\* leave the range.
FarX == IntMax - 1000

Positions ==
    { [x |-> -500, y |-> 0], [x |-> 0, y |-> 0], [x |-> 0, y |-> 1080],
      [x |-> FarX, y |-> 0] }

Sizes == { [width |-> 1920, height |-> 1080], [width |-> 2560, height |-> 1440] }

\* The displays differ in scale factor and in wallpaper: one at scale 1.0 that
\* has no wallpaper and one at scale 2.0 that has one. Option<PathBuf>: the
\* empty sequence is None, a one-element sequence is Some.
Attributes ==
    { [scale_factor |-> 1, wallpaper |-> <<>>],
      [scale_factor |-> 2, wallpaper |-> <<"a.png">>] }

FillModes == {"None", "Span", "Fill"}

\* A MonitorHandle, as available_monitors builds it.
MonitorHandle(position, size, scale_factor) ==
    [position |-> position, size |-> size, scale_factor |-> scale_factor]

(***************************************************************************)
(* Machine integers.                                                       *)
(***************************************************************************)
\* u32 `as i32`: the same bits read as a two's complement number.
AsI32(u) == IF u > IntMax THEN u - UIntMod ELSE u

\* i32 addition as a build without overflow checks computes it.
WrappingAdd(a, b) == ((a + b - IntMin) % UIntMod) + IntMin

\* i32 addition leaves the range: a panic in a build with overflow checks.
AddOverflows(a, b) == a + b < IntMin \/ a + b > IntMax

Min(a, b) == IF a <= b THEN a ELSE b

Max(a, b) == IF a >= b THEN a ELSE b

\* i32::abs_diff, a u32.
AbsDiff(a, b) == IF a >= b THEN a - b ELSE b - a

(***************************************************************************)
(* Surface                                                                 *)
(***************************************************************************)
\* PhysicalPosition orders by x, then y; Surface::cmp compares positions only.
PositionLess(p, q) == p.x < q.x \/ (p.x = q.x /\ p.y < q.y)

SurfaceLess(a, b) == PositionLess(a.position, b.position)

\* from_monitor that forgets the wallpaper.
from_monitor_NoWallpaper(entry) ==
    [ position     |-> entry[1].position,
      size         |-> entry[1].size,
      scale_factor |-> entry[1].scale_factor,
      wallpaper    |-> <<>> ]

\* from_monitor that takes every display to be at scale 1.0.
from_monitor_UnitScale(entry) ==
    [ position     |-> entry[1].position,
      size         |-> entry[1].size,
      scale_factor |-> 1,
      wallpaper    |-> entry[2] ]

from_monitor(entry) ==
    [ position     |-> entry[1].position,
      size         |-> entry[1].size,
      scale_factor |-> entry[1].scale_factor,
      wallpaper    |-> entry[2] ]

\* merge that takes the scale factor and the wallpaper of the merged surface.
merge_RightBiased(self, surface) ==
    LET top_left ==
            [ x |-> Min(self.position.x, surface.position.x),
              y |-> Min(self.position.y, surface.position.y) ]
        bottom_right ==
            [ x |-> Max(WrappingAdd(self.position.x, AsI32(self.size.width)),
                        WrappingAdd(surface.position.x, AsI32(surface.size.width))),
              y |-> Max(WrappingAdd(self.position.y, AsI32(self.size.height)),
                        WrappingAdd(surface.position.y, AsI32(surface.size.height))) ]
    IN  [ surface EXCEPT
            !.position = top_left,
            !.size = [ width  |-> AbsDiff(top_left.x, bottom_right.x),
                       height |-> AbsDiff(top_left.y, bottom_right.y) ] ]

\* merge that leaves self as it is.
merge_NoUnion(self, surface) == self

\* Some addition of Surface::merge leaves the i32 range.
MergeOverflows(self, surface) ==
    \/ AddOverflows(self.position.x, AsI32(self.size.width))
    \/ AddOverflows(surface.position.x, AsI32(surface.size.width))
    \/ AddOverflows(self.position.y, AsI32(self.size.height))
    \/ AddOverflows(surface.position.y, AsI32(surface.size.height))

\* Surface::merge: self after the call.
merge(self, surface) ==
    LET top_left ==
            [ x |-> Min(self.position.x, surface.position.x),
              y |-> Min(self.position.y, surface.position.y) ]
        bottom_right ==
            [ x |-> Max(WrappingAdd(self.position.x, AsI32(self.size.width)),
                        WrappingAdd(surface.position.x, AsI32(surface.size.width))),
              y |-> Max(WrappingAdd(self.position.y, AsI32(self.size.height)),
                        WrappingAdd(surface.position.y, AsI32(surface.size.height))) ]
    IN  [ self EXCEPT
            !.position = top_left,
            !.size = [ width  |-> AbsDiff(top_left.x, bottom_right.x),
                       height |-> AbsDiff(top_left.y, bottom_right.y) ] ]

from_monitors(ms) == [i \in DOMAIN ms |-> from_monitor(ms[i])]

(***************************************************************************)
(* extend: one accumulator per size key, then a stable sort by position.   *)
(***************************************************************************)
\* The grouping map as the sequence of its entries in insertion order.
KeyIndex(grouping, key) ==
    IF \E i \in DOMAIN grouping : grouping[i].key = key
    THEN CHOOSE i \in DOMAIN grouping : grouping[i].key = key
    ELSE 0

\* Entry that merges into the first accumulator whatever the size.
Entry_MergesAnySize(grouping, surface) ==
    IF grouping = <<>>
    THEN Append(grouping, [key |-> surface.size, value |-> surface])
    ELSE [grouping EXCEPT ![1].value = merge(grouping[1].value, surface)]

\* Entry that merges only surfaces of one scale factor (the check that
\* Surface::merge has commented out).
Entry_SplitsByScale(grouping, surface) ==
    LET i == KeyIndex(grouping, surface.size)
    IN  IF i = 0 \/ grouping[i].value.scale_factor /= surface.scale_factor
        THEN Append(grouping, [key |-> surface.size, value |-> surface])
        ELSE [grouping EXCEPT ![i].value = merge(grouping[i].value, surface)]

\* entry(size).and_modify(merge).or_insert_with(surface)
Entry(grouping, surface) ==
    LET i == KeyIndex(grouping, surface.size)
    IN  IF i = 0
        THEN Append(grouping, [key |-> surface.size, value |-> surface])
        ELSE [grouping EXCEPT ![i].value = merge(grouping[i].value, surface)]

RECURSIVE Grouping(_, _)
Grouping(grouping, ss) ==
    IF ss = <<>> THEN grouping
    ELSE Grouping(Entry(grouping, Head(ss)), Tail(ss))

RECURSIVE GroupingOverflows(_, _)
GroupingOverflows(grouping, ss) ==
    IF ss = <<>> THEN FALSE
    ELSE LET i == KeyIndex(grouping, Head(ss).size)
         IN  \/ (i /= 0 /\ MergeOverflows(grouping[i].value, Head(ss)))
             \/ GroupingOverflows(Entry(grouping, Head(ss)), Tail(ss))

\* HashMap::into_values: the values in an order the map does not specify.
IntoValues(grouping) ==
    LET n == Len(grouping)
        Orders == { f \in [1..n -> 1..n] : \A i, j \in 1..n : i /= j => f[i] /= f[j] }
    IN  { [i \in 1..n |-> grouping[f[i]].value] : f \in Orders }

\* One step of a stable sort: s goes after every element that is not greater.
RECURSIVE Insert(_, _)
Insert(sorted, s) ==
    IF sorted = <<>> THEN <<s>>
    ELSE IF SurfaceLess(s, Head(sorted)) THEN <<s>> \o sorted
    ELSE <<Head(sorted)>> \o Insert(Tail(sorted), s)

\* extend without its sort.
Sort_Missing(ss) == ss

RECURSIVE Sort(_)
Sort(ss) ==
    IF ss = <<>> THEN <<>>
    ELSE Insert(Sort(SubSeq(ss, 1, Len(ss) - 1)), ss[Len(ss)])

\* The lists extend can return.
extend(ss) == { Sort(values) : values \in IntoValues(Grouping(<<>>, ss)) }

(***************************************************************************)
(* fill: reduce with merge.                                                *)
(***************************************************************************)
RECURSIVE Reduce(_, _)
Reduce(a, rest) ==
    IF rest = <<>> THEN a
    ELSE Reduce(merge(a, Head(rest)), Tail(rest))

RECURSIVE ReduceOverflows(_, _)
ReduceOverflows(a, rest) ==
    IF rest = <<>> THEN FALSE
    ELSE \/ MergeOverflows(a, Head(rest))
         \/ ReduceOverflows(merge(a, Head(rest)), Tail(rest))

\* fill that returns the surfaces unreduced.
fill_Unreduced(ss) == ss

\* fill that returns a surface of zero geometry for no surfaces.
fill_ZeroSurface(ss) ==
    IF ss = <<>>
    THEN << [ position |-> [x |-> 0, y |-> 0], size |-> [width |-> 0, height |-> 0],
              scale_factor |-> 1, wallpaper |-> <<>> ] >>
    ELSE << Reduce(Head(ss), Tail(ss)) >>

fill(ss) == IF ss = <<>> THEN <<>> ELSE << Reduce(Head(ss), Tail(ss)) >>

(***************************************************************************)
(* build                                                                   *)
(***************************************************************************)
\* The lists build can return when overflowing additions wrap.
build(ms, mode) ==
    LET ss == from_monitors(ms)
    IN  CASE mode = "None" -> { ss }
          [] mode = "Span" -> extend(ss)
          [] mode = "Fill" -> { fill(ss) }

\* Some addition executed by build leaves the i32 range.
BuildOverflows(ms, mode) ==
    LET ss == from_monitors(ms)
    IN  CASE mode = "None" -> FALSE
          [] mode = "Span" -> GroupingOverflows(<<>>, ss)
          [] mode = "Fill" -> ss /= <<>> /\ ReduceOverflows(Head(ss), Tail(ss))

(***************************************************************************)
(* The program: run_flux enumerates the monitors, then builds the surfaces.*)
(***************************************************************************)
\* What poll_iter yields: an event, or nothing when the queue is empty.
Event(type, xrel, yrel) == [type |-> type, xrel |-> xrel, yrel |-> yrel]

NoEvent == Event("None", 0, 0)

\* Nothing of run_flux after build has happened.
RunIdle ==
    /\ run_mode = "Screensaver"
    /\ instances = <<>>
    /\ created = 0
    /\ todo = {}
    /\ drawn = <<>>
    /\ errors = <<>>
    /\ last_event = NoEvent
    /\ result = "none"
    /\ entered = FALSE

MergeIdle == operands = <<>> /\ merged = <<>>

\* Nothing of the configuration is looked at.
ConfigIdle ==
    /\ config_dir = <<>>
    /\ file = [state |-> "missing", text |-> <<>>]
    /\ config = <<>>
    /\ decoded = <<>>
    /\ saved = <<>>
    /\ problem = "none"

Init ==
    /\ monitors = <<>>
    /\ fill_mode = "Span"
    /\ pc = "enumerate"
    /\ surfaces = <<>>
    /\ panicked = FALSE
    /\ previous = <<>>
    /\ RunIdle
    /\ MergeIdle
    /\ ConfigIdle

\* available_monitors().enumerate().map(..): the next display and its wallpaper.
AddMonitor ==
    /\ pc = "enumerate"
    /\ Len(monitors) < MaxMonitors
    /\ \E position \in Positions, size \in Sizes, a \in Attributes :
          monitors' = Append(monitors,
              << MonitorHandle(position, size, a.scale_factor), a.wallpaper >>)
    /\ UNCHANGED <<fill_mode, pc, surfaces, panicked, previous, runVars, mergeVars, configVars>>

\* Displays whose width does not fit an i32, next to ordinary ones.
WidePositions == { [x |-> 0, y |-> 0], [x |-> IntMax, y |-> 0] }

WideSizes == { [width |-> IntMax + 2, height |-> 1080], [width |-> 1920, height |-> 1080] }

\* available_monitors().enumerate().map(..), for displays of any u32 width.
AddWideMonitor ==
    /\ pc = "enumerate"
    /\ Len(monitors) < MaxMonitors
    /\ \E position \in WidePositions, size \in WideSizes, a \in Attributes :
          monitors' = Append(monitors,
              << MonitorHandle(position, size, a.scale_factor), a.wallpaper >>)
    /\ UNCHANGED <<fill_mode, pc, surfaces, panicked, previous, runVars, mergeVars, configVars>>

\* build that takes the monitors by value and leaves the list empty.
Build_DrainsMonitors(mode) ==
    /\ pc = "enumerate"
    /\ fill_mode' = mode
    /\ \/ /\ BuildOverflows(monitors, mode)
          /\ panicked' = TRUE
          /\ surfaces' = <<>>
       \/ /\ panicked' = FALSE
          /\ surfaces' \in build(monitors, mode)
    /\ pc' = "built"
    /\ monitors' = <<>>
    /\ UNCHANGED <<previous, runVars, mergeVars, configVars>>

\* surface::build(&monitors, fill_mode), with the fill mode of the configuration.
\* An addition that overflows panics in a build with overflow checks and wraps
\* in a build without them.
Build(mode) ==
    /\ pc = "enumerate"
    /\ fill_mode' = mode
    /\ \/ /\ BuildOverflows(monitors, mode)
          /\ panicked' = TRUE
          /\ surfaces' = <<>>
       \/ /\ panicked' = FALSE
          /\ surfaces' \in build(monitors, mode)
    /\ pc' = "built"
    /\ UNCHANGED <<monitors, previous, runVars, mergeVars, configVars>>

\* The same binary run again on the same monitors and fill mode.
Rebuild ==
    /\ pc = "built"
    /\ ~panicked
    /\ previous' = <<surfaces>>
    /\ surfaces' \in build(monitors, fill_mode)
    /\ pc' = "rebuilt"
    /\ UNCHANGED <<monitors, fill_mode, panicked, runVars, mergeVars, configVars>>

Next == AddMonitor \/ (\E mode \in FillModes : Build(mode)) \/ Rebuild

Spec == Init /\ [][Next]_vars

(***************************************************************************)
(* run_flux after build: one instance per surface, then the event loop.    *)
(***************************************************************************)
MINIMUM_MOUSE_MOTION_TO_EXIT_SCREENSAVER == 10

\* Relative mouse motions, i32: around the threshold, and the least i32.
Rels == {IntMin, -11, -10, 0, 10, 11}

Events ==
    { Event(t, 0, 0) : t \in {"Quit", "WindowClose", "WindowOther", "KeyDown", "KeyUp",
                               "MouseButtonDown", "MouseButtonUp"} }
    \cup { Event("MouseMotion", xrel, yrel) : xrel \in Rels, yrel \in Rels }

\* i32::abs without overflow checks: the least i32 is its own absolute value.
Abs(n) == IF n = IntMin THEN IntMin ELSE IF n < 0 THEN -n ELSE n

\* i32::abs overflows: a panic in a build with overflow checks.
AbsOverflows(n) == n = IntMin

\* The match of run_main_loop breaks out of the loop.
ExitsMainLoop(event) ==
    \/ event.type \in {"Quit", "WindowClose", "KeyDown", "MouseButtonDown"}
    \/ /\ event.type = "MouseMotion"
       /\ Max(Abs(event.xrel), Abs(event.yrel)) > MINIMUM_MOUSE_MOTION_TO_EXIT_SCREENSAVER

\* The match of run_preview_loop breaks out of the loop.
ExitsPreviewLoop(event) == event.type \in {"Quit", "WindowClose"}

ExitsLoop(event) ==
    IF run_mode = "Preview" THEN ExitsPreviewLoop(event) ELSE ExitsMainLoop(event)

\* The match evaluates an abs that overflows.
MatchOverflows(event) ==
    /\ run_mode = "Screensaver"
    /\ event.type = "MouseMotion"
    /\ (AbsOverflows(event.xrel) \/ AbsOverflows(event.yrel))

\* The displays of the runs: two of one size, side by side.
RunMonitors ==
    { << MonitorHandle([x |-> 0, y |-> 0], [width |-> 1920, height |-> 1080], 1), <<>> >>,
      << MonitorHandle([x |-> 1920, y |-> 0], [width |-> 1920, height |-> 1080], 2),
         <<"a.png">> >> }

RunMonitorLists ==
    UNION { [1..n -> RunMonitors] : n \in 0..MaxMonitors }

InitRun ==
    /\ run_mode \in {"Screensaver", "Preview"}
    /\ monitors \in RunMonitorLists
    /\ run_mode = "Preview" => monitors = <<>>
    /\ fill_mode = "Span"
    /\ pc = "enumerate"
    /\ surfaces = <<>>
    /\ panicked = FALSE
    /\ previous = <<>>
    /\ instances = <<>>
    /\ created = 0
    /\ todo = {}
    /\ drawn = <<>>
    /\ errors = <<>>
    /\ last_event = NoEvent
    /\ result = "none"
    /\ entered = FALSE
    /\ MergeIdle
    /\ ConfigIdle

\* Screensaver mode: surface::build with the configured fill mode.
BuildSurfaces == run_mode = "Screensaver" /\ \E m \in FillModes : Build(m)

\* SDL gives every window an id no other window has.
NextWindowId == Cardinality(DOMAIN instances) + 1

\* new_instance that is skipped when it fails.
NewInstance_SkipsFailure ==
    /\ run_mode = "Screensaver"
    /\ pc = "built"
    /\ ~panicked
    /\ created < Len(surfaces)
    /\ created' = created + 1
    /\ \/ instances' = instances @@ (NextWindowId :> created + 1)
       \/ instances' = instances
    /\ UNCHANGED <<monitors, fill_mode, pc, surfaces, panicked, previous, run_mode,
                   todo, drawn, errors, last_event, result, entered, mergeVars, configVars>>

\* surfaces.iter().map(new_instance).collect::<Result<HashMap<..>, String>>()?:
\* the instance of the next surface, keyed by its window id, or the first error,
\* which run_flux returns.
NewInstance ==
    /\ run_mode = "Screensaver"
    /\ pc = "built"
    /\ ~panicked
    /\ created < Len(surfaces)
    /\ \/ /\ instances' = instances @@ (NextWindowId :> created + 1)
          /\ created' = created + 1
          /\ UNCHANGED <<pc, result>>
       \/ /\ instances' = <<>>
          /\ result' = "Err(new_instance)"
          /\ pc' = "done"
          /\ UNCHANGED created
    /\ UNCHANGED <<monitors, fill_mode, surfaces, panicked, previous, run_mode,
                   todo, drawn, errors, last_event, entered, mergeVars, configVars>>

\* Preview mode: new_preview_window(..)?, the one instance of the preview.
NewPreviewWindow ==
    /\ run_mode = "Preview"
    /\ pc = "enumerate"
    /\ \/ /\ instances' = (1 :> 0)
          /\ pc' = "window"
          /\ UNCHANGED result
       \/ /\ result' = "Err(new_preview_window)"
          /\ pc' = "done"
          /\ UNCHANGED instances
    /\ UNCHANGED <<monitors, fill_mode, surfaces, panicked, previous, run_mode, created,
                   todo, drawn, errors, last_event, entered, mergeVars, configVars>>

\* Every instance is there.
InstancesReady ==
    \/ run_mode = "Screensaver" /\ pc = "built" /\ ~panicked /\ created = Len(surfaces)
    \/ run_mode = "Preview" /\ pc = "window"

\* sdl_context.event_pump()?, then the loop is entered.
EventPump ==
    /\ InstancesReady
    /\ \/ /\ pc' = "poll"
          /\ entered' = TRUE
          /\ UNCHANGED result
       \/ /\ result' = "Err(event_pump)"
          /\ pc' = "done"
          /\ UNCHANGED entered
    /\ UNCHANGED <<monitors, fill_mode, surfaces, panicked, previous, run_mode, instances,
                   created, todo, drawn, errors, last_event, mergeVars, configVars>>

\* One event of poll_iter goes through the match: the loop breaks and the
\* function returns Ok(()), or the for loop goes on. abs of the least i32
\* panics in a build with overflow checks.
Poll ==
    /\ pc = "poll"
    /\ \E event \in Events :
          /\ last_event' = event
          /\ \/ /\ MatchOverflows(event)
                /\ panicked' = TRUE
                /\ pc' = "done"
                /\ UNCHANGED result
             \/ /\ ExitsLoop(event)
                /\ pc' = "done"
                /\ result' = "Ok"
                /\ UNCHANGED panicked
             \/ /\ ~ExitsLoop(event)
                /\ UNCHANGED <<pc, result, panicked>>
    /\ UNCHANGED <<monitors, fill_mode, surfaces, previous, run_mode, instances, created,
                   todo, drawn, errors, entered, mergeVars, configVars>>

\* poll_iter has no more events: the loop goes on to draw every instance.
EndPoll ==
    /\ pc = "poll"
    /\ last_event' = NoEvent
    /\ todo' = DOMAIN instances
    /\ drawn' = [id \in DOMAIN instances |-> 0]
    /\ errors' = [id \in DOMAIN instances |-> 0]
    /\ pc' = IF DOMAIN instances = {} THEN "poll" ELSE "draw"
    /\ UNCHANGED <<monitors, fill_mode, surfaces, panicked, previous, run_mode, instances,
                   created, result, entered, mergeVars, configVars>>

\* A draw whose error leaves the for loop.
Draw_StopsAtError ==
    /\ pc = "draw"
    /\ \E id \in todo :
          /\ drawn' = [drawn EXCEPT ![id] = @ + 1]
          /\ \/ /\ UNCHANGED errors
                /\ todo' = todo \ {id}
             \/ /\ errors' = [errors EXCEPT ![id] = @ + 1]
                /\ todo' = {}
    /\ pc' = IF todo' = {} THEN "poll" ELSE "draw"
    /\ UNCHANGED <<monitors, fill_mode, surfaces, panicked, previous, run_mode, instances,
                   created, last_event, result, entered, mergeVars, configVars>>

\* A draw whose error is returned from the loop.
Draw_ErrorIsFatal ==
    /\ pc = "draw"
    /\ \E id \in todo :
          /\ drawn' = [drawn EXCEPT ![id] = @ + 1]
          /\ todo' = todo \ {id}
          /\ \/ /\ UNCHANGED <<errors, result>>
                /\ pc' = IF todo' = {} THEN "poll" ELSE "draw"
             \/ /\ errors' = [errors EXCEPT ![id] = @ + 1]
                /\ result' = "Err(draw)"
                /\ pc' = "done"
    /\ UNCHANGED <<monitors, fill_mode, surfaces, panicked, previous, run_mode, instances,
                   created, last_event, entered, mergeVars, configVars>>

\* The next instance of instances.iter_mut() (in preview mode the one instance)
\* is drawn; an error of draw is logged and nothing else.
Draw ==
    /\ pc = "draw"
    /\ \E id \in todo :
          /\ drawn' = [drawn EXCEPT ![id] = @ + 1]
          /\ todo' = todo \ {id}
          /\ \/ UNCHANGED errors
             \/ errors' = [errors EXCEPT ![id] = @ + 1]
    /\ pc' = IF todo' = {} THEN "poll" ELSE "draw"
    /\ UNCHANGED <<monitors, fill_mode, surfaces, panicked, previous, run_mode, instances,
                   created, last_event, result, entered, mergeVars, configVars>>

NextRun ==
    \/ BuildSurfaces
    \/ NewInstance
    \/ NewPreviewWindow
    \/ EventPump
    \/ Poll
    \/ EndPoll
    \/ Draw

SpecRun == InitRun /\ [][NextRun]_vars

(***************************************************************************)
(* Surface::merge on its own.                                              *)
(***************************************************************************)
\* The corners Surface::merge computes before it assigns position and size.
top_left(self, surface) ==
    [ x |-> Min(self.position.x, surface.position.x),
      y |-> Min(self.position.y, surface.position.y) ]

bottom_right(self, surface) ==
    [ x |-> Max(WrappingAdd(self.position.x, AsI32(self.size.width)),
                WrappingAdd(surface.position.x, AsI32(surface.size.width))),
      y |-> Max(WrappingAdd(self.position.y, AsI32(self.size.height)),
                WrappingAdd(surface.position.y, AsI32(surface.size.height))) ]

\* The surfaces merge is applied to: any position, any u32 size.
MergePositions == { [x |-> -500, y |-> 0], [x |-> 0, y |-> 1080], [x |-> FarX, y |-> 0] }

MergeSizes ==
    { [width |-> 1920, height |-> 1080], [width |-> 2560, height |-> 1440],
      [width |-> IntMax + 2, height |-> 1080] }

MergeSurfaces ==
    { [ position |-> p, size |-> z, scale_factor |-> t.scale_factor,
        wallpaper |-> t.wallpaper ] :
        p \in MergePositions, z \in MergeSizes, t \in Attributes }

InitMerge ==
    /\ monitors = <<>>
    /\ fill_mode = "Span"
    /\ pc = "operands"
    /\ surfaces = <<>>
    /\ panicked = FALSE
    /\ previous = <<>>
    /\ RunIdle
    /\ operands \in [1..3 -> MergeSurfaces]
    /\ merged = <<>>
    /\ ConfigIdle

\* a.merge(&b), then the merges of a, b and c in both groupings. An addition
\* that overflows panics in a build with overflow checks and wraps otherwise.
Merge ==
    /\ pc = "operands"
    /\ LET a == operands[1]
           b == operands[2]
           c == operands[3]
       IN  \/ /\ \/ MergeOverflows(a, b) \/ MergeOverflows(merge(a, b), c)
                 \/ MergeOverflows(b, c) \/ MergeOverflows(a, merge(b, c))
              /\ panicked' = TRUE
              /\ merged' = <<>>
           \/ /\ panicked' = FALSE
              /\ merged' = [ top_left     |-> top_left(a, b),
                             bottom_right |-> bottom_right(a, b),
                             ab           |-> merge(a, b),
                             ba           |-> merge(b, a),
                             ab_c         |-> merge(merge(a, b), c),
                             a_bc         |-> merge(a, merge(b, c)) ]
    /\ pc' = "merged"
    /\ UNCHANGED <<monitors, fill_mode, surfaces, previous, runVars, operands, configVars>>

NextMerge == Merge

SpecMerge == InitMerge /\ [][NextMerge]_vars

\* The same program on displays of any u32 width.
NextWide == AddWideMonitor \/ (\E mode \in FillModes : Build(mode)) \/ Rebuild

SpecWide == Init /\ [][NextWide]_vars

\* The orders in which available_monitors can enumerate the same displays.
Enumerations(ms) ==
    LET n == Len(ms)
        Orders == { f \in [1..n -> 1..n] : \A i, j \in 1..n : i /= j => f[i] /= f[j] }
    IN  { [i \in 1..n |-> ms[f[i]]] : f \in Orders }

\* The program run again with the same fill mode, the displays enumerated in
\* another order.
Reorder ==
    /\ pc = "built"
    /\ ~panicked
    /\ previous' = <<surfaces>>
    /\ \E ms \in Enumerations(monitors) :
          /\ monitors' = ms
          /\ \/ /\ BuildOverflows(ms, fill_mode)
                /\ panicked' = TRUE
                /\ surfaces' = <<>>
             \/ /\ panicked' = FALSE
                /\ surfaces' \in build(ms, fill_mode)
    /\ pc' = "rebuilt"
    /\ UNCHANGED <<fill_mode, runVars, mergeVars, configVars>>

NextPermute == AddMonitor \/ (\E mode \in FillModes : Build(mode)) \/ Reorder

SpecPermute == Init /\ [][NextPermute]_vars

Returned == pc \in {"built", "rebuilt"} /\ ~panicked

TypeOK ==
    /\ Len(monitors) <= MaxMonitors
    /\ fill_mode \in FillModes
    /\ pc \in {"enumerate", "built", "rebuilt"}
    /\ panicked \in BOOLEAN
    /\ Len(previous) <= 1

(***************************************************************************)
(* The configuration (windows/src/config.rs, config/v1.rs).                *)
(***************************************************************************)
LATEST_VERSION == 2

\* Option: the empty sequence is None, a one-element sequence is Some.
None == <<>>

Some(x) == <<x>>

\* Result<Config, Problem>
Ok(c) == [ok |-> TRUE, value |-> <<c>>, problem |-> "none"]

Err(p) == [ok |-> FALSE, value |-> <<>>, problem |-> p]

\* log::Level, and the names its two decoders and the encoder use: log's own
\* FromStr ignores case, LogLevelDef is renamed to camelCase.
Levels == {"Error", "Warn", "Info", "Debug", "Trace"}

LevelFromStr ==
    [ s \in {"ERROR", "error", "WARN", "warn", "INFO", "info", "DEBUG", "debug",
             "TRACE", "trace"} |->
        CASE s \in {"ERROR", "error"} -> "Error"
          [] s \in {"WARN", "warn"}   -> "Warn"
          [] s \in {"INFO", "info"}   -> "Info"
          [] s \in {"DEBUG", "debug"} -> "Debug"
          [] s \in {"TRACE", "trace"} -> "Trace" ]

LogLevelDef ==
    [ l \in Levels |->
        CASE l = "Error" -> "error"
          [] l = "Warn"  -> "warn"
          [] l = "Info"  -> "info"
          [] l = "Debug" -> "debug"
          [] l = "Trace" -> "trace" ]

\* flux::settings::ColorPreset
ColorPresets == {"Original", "Plasma", "Poolside", "Freedom"}

\* config::ColorMode, with the fields of the other variants left empty.
Preset(preset_name) ==
    [mode |-> "Preset", preset_name |-> preset_name, image_path |-> None]

ImageFile(image_path) ==
    [mode |-> "ImageFile", preset_name |-> "", image_path |-> image_path]

DesktopImage == [mode |-> "DesktopImage", preset_name |-> "", image_path |-> None]

\* ColorMode::default()
DefaultColorMode == Preset("Original")

\* The renaming of FillMode to camelCase.
FillModeName ==
    [ m \in FillModes |->
        CASE m = "None" -> "none" [] m = "Span" -> "span" [] m = "Fill" -> "fill" ]

\* Config::default()
DefaultConfig ==
    [ version   |-> LATEST_VERSION,
      log_level |-> "Warn",
      flux      |-> [color_mode |-> DefaultColorMode],
      platform  |-> [windows |-> [fill_mode |-> "Span"]],
      location  |-> None ]

\* The values of a JSON document: a key is absent, or holds null, a string, a
\* number (kept as its digits), an object, or {"<tag>": "<string>"}.
Absent == [t |-> "absent", v |-> ""]

Null == [t |-> "null", v |-> ""]

Str(s) == [t |-> "string", v |-> s]

Num(n) == [t |-> "number", v |-> ToString(n)]

Object == [t |-> "object", v |-> ""]

Tagged(tag, s) == [t |-> tag, v |-> s]

\* The text of a settings file: not JSON at all, or a JSON object seen through
\* the keys that either format reads. version, log_level and logLevel are
\* keys of the object, color_mode, colorMode, presetName and imagePath keys of
\* "flux", fillMode is platform.windows.fillMode.
Document(version, log_level, logLevel, flux, color_mode, colorMode, presetName, imagePath, fillMode) ==
    [ json |-> TRUE, version |-> version, log_level |-> log_level, logLevel |-> logLevel,
      flux |-> flux, color_mode |-> color_mode, colorMode |-> colorMode,
      presetName |-> presetName, imagePath |-> imagePath, fillMode |-> fillMode ]

NotJson ==
    [ Document(Absent, Absent, Absent, Absent, Absent, Absent, Absent, Absent, Absent)
        EXCEPT !.json = FALSE ]

\* serde_json::from_value::<Cow<str>>(config_ast["version"])
VersionString(doc) ==
    IF doc.version.t = "string" THEN Ok(doc.version.v) ELSE Err("DecodeSettings")

\* --- the format of version 0.1.0 -----------------------------------------
\* semver::Version: the strings of the model that parse.
SemVers == {"0.1.0"}

V1Version(doc) ==
    \/ doc.version = Absent
    \/ doc.version.t = "string" /\ doc.version.v \in SemVers

V1LogLevel(doc) ==
    IF doc.log_level = Absent THEN Ok("Warn")
    ELSE IF doc.log_level.t = "string" /\ doc.log_level.v \in DOMAIN LevelFromStr
    THEN Ok(LevelFromStr[doc.log_level.v])
    ELSE Err("DecodeSettings")

\* v1::ColorMode, externally tagged: {"Preset": name} or "DesktopImage".
V1ColorMode(doc) ==
    IF doc.flux = Absent THEN Ok([mode |-> "Preset", preset |-> "Original"])
    ELSE IF doc.flux.t /= "object" THEN Err("DecodeSettings")
    ELSE IF doc.color_mode.t = "Preset" /\ doc.color_mode.v \in ColorPresets
    THEN Ok([mode |-> "Preset", preset |-> doc.color_mode.v])
    ELSE IF doc.color_mode = Str("DesktopImage")
    THEN Ok([mode |-> "DesktopImage", preset |-> ""])
    ELSE Err("DecodeSettings")

\* serde_json::from_value::<v1::Config>
V1FromValue(doc) ==
    IF V1Version(doc) /\ V1LogLevel(doc).ok /\ V1ColorMode(doc).ok
    THEN Ok([ version   |-> "0.1.0",
              log_level |-> V1LogLevel(doc).value[1],
              flux      |-> [color_mode |-> V1ColorMode(doc).value[1]] ])
    ELSE Err("DecodeSettings")

\* v1::Config::upgrade
upgrade(self) ==
    LET color_mode ==
            IF self.flux.color_mode.mode = "Preset"
            THEN Preset(self.flux.color_mode.preset)
            ELSE DesktopImage
    IN  [ version   |-> LATEST_VERSION,
          log_level |-> self.log_level,
          flux      |-> [color_mode |-> color_mode],
          platform  |-> [windows |-> [fill_mode |-> "Span"]],
          location  |-> None ]

\* --- the current format ---------------------------------------------------
\* version: u8, read from a JSON number, LATEST_VERSION when the key is absent.
V2Version(doc) ==
    IF doc.version = Absent THEN Ok(LATEST_VERSION)
    ELSE IF doc.version.t = "number" /\ \E n \in 0..255 : ToString(n) = doc.version.v
    THEN Ok(CHOOSE n \in 0..255 : ToString(n) = doc.version.v)
    ELSE Err("DecodeSettings")

V2LogLevel(doc) ==
    IF doc.logLevel = Absent THEN Ok("Warn")
    ELSE IF doc.logLevel.t = "string" /\ \E l \in Levels : LogLevelDef[l] = doc.logLevel.v
    THEN Ok(CHOOSE l \in Levels : LogLevelDef[l] = doc.logLevel.v)
    ELSE Err("DecodeSettings")

\* FluxSettings with the flattened ColorMode, tagged by "colorMode".
V2ColorMode(doc) ==
    IF doc.flux = Absent THEN Ok(DefaultColorMode)
    ELSE IF doc.flux.t /= "object" THEN Err("DecodeSettings")
    ELSE IF doc.colorMode = Str("preset")
    THEN IF doc.presetName.t = "string" /\ doc.presetName.v \in ColorPresets
         THEN Ok(Preset(doc.presetName.v))
         ELSE Err("DecodeSettings")
    ELSE IF doc.colorMode = Str("imageFile")
    THEN IF doc.imagePath \in {Absent, Null} THEN Ok(ImageFile(None))
         ELSE IF doc.imagePath.t = "string" THEN Ok(ImageFile(Some(doc.imagePath.v)))
         ELSE Err("DecodeSettings")
    ELSE IF doc.colorMode = Str("desktopImage") THEN Ok(DesktopImage)
    ELSE Err("DecodeSettings")

V2FillMode(doc) ==
    IF doc.fillMode = Absent THEN Ok("Span")
    ELSE IF doc.fillMode.t = "string" /\ \E m \in FillModes : FillModeName[m] = doc.fillMode.v
    THEN Ok(CHOOSE m \in FillModes : FillModeName[m] = doc.fillMode.v)
    ELSE Err("DecodeSettings")

\* serde_json::from_value::<Config>: location is skipped and left None.
V2FromValue(doc) ==
    IF V2Version(doc).ok /\ V2LogLevel(doc).ok /\ V2ColorMode(doc).ok /\ V2FillMode(doc).ok
    THEN Ok([ version   |-> V2Version(doc).value[1],
              log_level |-> V2LogLevel(doc).value[1],
              flux      |-> [color_mode |-> V2ColorMode(doc).value[1]],
              platform  |-> [windows |-> [fill_mode |-> V2FillMode(doc).value[1]]],
              location  |-> None ])
    ELSE Err("DecodeSettings")

\* Config::from_string
from_string(doc) ==
    IF ~doc.json THEN Err("DecodeSettings")
    ELSE IF ~VersionString(doc).ok THEN Err("DecodeSettings")
    ELSE LET version == VersionString(doc).value[1]
         IN  CASE version = "0.1.0" ->
                    IF V1FromValue(doc).ok
                    THEN Ok(upgrade(V1FromValue(doc).value[1]))
                    ELSE Err("DecodeSettings")
               [] version = "2" -> V2FromValue(doc)
               [] OTHER -> Err("UnsupportedVersion")

\* serde_json::to_writer_pretty(file, self): the text save writes.
Serialize(self) ==
    LET color_mode == self.flux.color_mode
    IN  Document(
            Num(self.version),
            Absent,
            Str(LogLevelDef[self.log_level]),
            Object,
            Absent,
            CASE color_mode.mode = "Preset" -> Str("preset")
              [] color_mode.mode = "ImageFile" -> Str("imageFile")
              [] color_mode.mode = "DesktopImage" -> Str("desktopImage"),
            IF color_mode.mode = "Preset" THEN Str(color_mode.preset_name) ELSE Absent,
            IF color_mode.mode /= "ImageFile" THEN Absent
            ELSE IF color_mode.image_path = None THEN Null
            ELSE Str(color_mode.image_path[1]),
            Str(FillModeName[self.platform.windows.fill_mode]))

\* config_dir.join("settings.json")
Join(dir, name) == <<dir, name>>

\* Config::load_existing_config on the file as it is.
load_existing_config(f) ==
    CASE f.state = "missing"    -> Err("ReadSettings NotFound")
      [] f.state = "unreadable" -> Err("ReadSettings")
      [] f.state = "written"    -> from_string(f.text[1])

attach_location(self, path) == [self EXCEPT !.location = Some(path)]

\* load that attaches the location only to a config it decoded.
load_DefaultUnattached(optional_config_dir, f) ==
    IF optional_config_dir = None THEN DefaultConfig
    ELSE LET config_path == Join(optional_config_dir[1], "settings.json")
             loaded      == load_existing_config(f)
         IN  IF loaded.ok THEN attach_location(loaded.value[1], config_path)
             ELSE DefaultConfig

\* Config::load
load(optional_config_dir, f) ==
    IF optional_config_dir = None THEN DefaultConfig
    ELSE LET config_path == Join(optional_config_dir[1], "settings.json")
             loaded      == load_existing_config(f)
         IN  attach_location(IF loaded.ok THEN loaded.value[1] ELSE DefaultConfig,
                             config_path)

\* --- the program around the configuration -------------------------------
\* directories::ProjectDirs may find no preference directory.
ConfigDirs == { None, Some("preference_dir") }

\* The settings files the program may find: either format under each kind
\* of version, and text that is not JSON.
VersionValues == { Absent, Num(2), Str("0.1.0"), Str("2"), Str("3") }

OldLogLevels == { Absent, Str("WARN"), Str("debug"), Str("loud") }

OldFlux ==
    { [flux |-> Absent, color_mode |-> Absent],
      [flux |-> Object, color_mode |-> Absent],
      [flux |-> Object, color_mode |-> Tagged("Preset", "Plasma")],
      [flux |-> Object, color_mode |-> Str("DesktopImage")] }

NewLogLevels == { Absent, Str("debug"), Str("DEBUG") }

NewFlux ==
    { [flux |-> Absent, colorMode |-> Absent, presetName |-> Absent, imagePath |-> Absent],
      [flux |-> Object, colorMode |-> Str("preset"), presetName |-> Str("Plasma"),
       imagePath |-> Absent],
      [flux |-> Object, colorMode |-> Str("preset"), presetName |-> Absent,
       imagePath |-> Absent],
      [flux |-> Object, colorMode |-> Str("desktopImage"), presetName |-> Absent,
       imagePath |-> Absent],
      [flux |-> Object, colorMode |-> Str("imageFile"), presetName |-> Absent,
       imagePath |-> Null],
      [flux |-> Object, colorMode |-> Str("imageFile"), presetName |-> Absent,
       imagePath |-> Str("a.png")] }

NewFillModes == { Absent, Str("fill"), Str("none") }

Documents ==
    { Document(v, l, Absent, f.flux, f.color_mode, Absent, Absent, Absent, Absent) :
        v \in VersionValues, l \in OldLogLevels, f \in OldFlux }
    \cup
    { Document(v, Absent, l, f.flux, Absent, f.colorMode, f.presetName, f.imagePath, m) :
        v \in VersionValues, l \in NewLogLevels, f \in NewFlux, m \in NewFillModes }
    \cup { NotJson }

Missing == [state |-> "missing", text |-> None]

Unreadable == [state |-> "unreadable", text |-> None]

Written(doc) == [state |-> "written", text |-> Some(doc)]

InitConfig ==
    /\ monitors = <<>>
    /\ fill_mode = "Span"
    /\ pc = "start"
    /\ surfaces = <<>>
    /\ panicked = FALSE
    /\ previous = <<>>
    /\ RunIdle
    /\ MergeIdle
    /\ config_dir \in ConfigDirs
    /\ file \in {Missing, Unreadable} \cup { Written(doc) : doc \in Documents }
    /\ config_dir = None => file = Missing
    /\ config = None
    /\ decoded = None
    /\ saved = None
    /\ problem = "none"

\* main: Config::load(config_dir), at the start of every run of the program.
\* The Problem of load_existing_config is logged.
Load ==
    /\ pc \in {"start", "saved"}
    /\ config' = Some(load(config_dir, file))
    /\ decoded' = IF config_dir /= None /\ file.state = "written"
                  THEN Some(from_string(file.text[1]))
                  ELSE None
    /\ problem' = IF config_dir = None THEN "none" ELSE load_existing_config(file).problem
    /\ pc' = IF pc = "start" THEN "loaded" ELSE "reloaded"
    /\ UNCHANGED <<monitors, fill_mode, surfaces, panicked, previous, runVars, mergeVars,
                   config_dir, file, saved>>

\* ColorMode::ALL, the choices of the settings window.
ALL == { Preset("Original"), Preset("Plasma"), Preset("Poolside"), DesktopImage,
         ImageFile(None) }

\* Message::SetColorMode
SetColorMode ==
    /\ pc \in {"loaded", "settings"}
    /\ \E new_color \in ALL :
          config' = Some([config[1] EXCEPT !.flux.color_mode = new_color])
    /\ pc' = "settings"
    /\ UNCHANGED <<monitors, fill_mode, surfaces, panicked, previous, runVars, mergeVars,
                   config_dir, file, decoded, saved, problem>>

\* Message::SetImageFile(Some(path))
SetImageFile ==
    /\ pc \in {"loaded", "settings"}
    /\ config' = Some([config[1] EXCEPT !.flux.color_mode = ImageFile(Some("b.png"))])
    /\ pc' = "settings"
    /\ UNCHANGED <<monitors, fill_mode, surfaces, panicked, previous, runVars, mergeVars,
                   config_dir, file, decoded, saved, problem>>

\* Message::SetFillMode
SetFillMode ==
    /\ pc \in {"loaded", "settings"}
    /\ \E new_fill_mode \in FillModes :
          config' = Some([config[1] EXCEPT !.platform.windows.fill_mode = new_fill_mode])
    /\ pc' = "settings"
    /\ UNCHANGED <<monitors, fill_mode, surfaces, panicked, previous, runVars, mergeVars,
                   config_dir, file, decoded, saved, problem>>

\* Message::Save: Config::save, whose Problem is logged, then the window
\* closes. Creating the directory or opening the file can fail and so can the
\* write, which leaves a file that was truncated.
Save ==
    /\ pc \in {"loaded", "settings"}
    /\ IF config[1].location = None
       THEN /\ problem' = "NoSaveLocation"
            /\ UNCHANGED <<file, saved>>
       ELSE \/ /\ problem' = "IO"
               /\ UNCHANGED <<file, saved>>
            \/ /\ problem' = "Save"
               /\ file' = Written(NotJson)
               /\ UNCHANGED saved
            \/ /\ problem' = "none"
               /\ file' = Written(Serialize(config[1]))
               /\ saved' = config
    /\ pc' = "saved"
    /\ UNCHANGED <<monitors, fill_mode, surfaces, panicked, previous, runVars, mergeVars,
                   config_dir, config, decoded>>

NextConfig ==
    \/ Load
    \/ SetColorMode
    \/ SetImageFile
    \/ SetFillMode
    \/ Save

SpecConfig == InitConfig /\ [][NextConfig]_vars

(***************************************************************************)
(* Vocabulary of the properties: the monitors as rectangles, in unbounded  *)
(* integers.                                                               *)
(***************************************************************************)
Handle(i) == monitors[i][1]

Indices == DOMAIN monitors

\* Ascending by position: x first, then y.
Ascending(ss) ==
    \A i, j \in DOMAIN ss :
        i < j => \/ ss[i].position.x < ss[j].position.x
                 \/ /\ ss[i].position.x = ss[j].position.x
                    /\ ss[i].position.y <= ss[j].position.y

SetMin(S) == CHOOSE m \in S : \A n \in S : m <= n

SetMax(S) == CHOOSE m \in S : \A n \in S : m >= n

\* The tightest rectangle covering the monitors of the index set I.
BoundingBox(I) ==
    LET left   == SetMin({ Handle(i).position.x : i \in I })
        top    == SetMin({ Handle(i).position.y : i \in I })
        right  == SetMax({ Handle(i).position.x + Handle(i).size.width : i \in I })
        bottom == SetMax({ Handle(i).position.y + Handle(i).size.height : i \in I })
    IN  [ position |-> [x |-> left, y |-> top],
          size     |-> [width |-> right - left, height |-> bottom - top] ]

Rectangle(s) == [position |-> s.position, size |-> s.size]

\* The monitors that have the size of monitor i, and the size groups.
SameSize(i) == { j \in Indices : Handle(j).size = Handle(i).size }

Groups == { SameSize(i) : i \in Indices }

First(I) == SetMin(I)

\* The surface that shows monitor i alone.
Alone(i) ==
    [ position     |-> Handle(i).position,
      size         |-> Handle(i).size,
      scale_factor |-> Handle(i).scale_factor,
      wallpaper    |-> monitors[i][2] ]

\* Some pair of monitors is out of position order.
InputUnsorted ==
    \E i, j \in Indices :
        i < j /\ PositionLess(Handle(j).position, Handle(i).position)

C2_FillBoundingBox ==
    (Returned /\ fill_mode = "Fill" /\ monitors /= <<>>) =>
        /\ Len(surfaces) = 1
        /\ Rectangle(surfaces[1]) = BoundingBox(Indices)

(***************************************************************************)
(* C3. Span grouping by size.                                              *)
(***************************************************************************)
\* C3: under Span the monitors of one size produce exactly one surface, whose
\* rectangle is the bounding box of exactly those monitors: the returned
\* rectangles are, counted with multiplicity, the bounding boxes of the groups.
C3_SpanGroupBoundingBox ==
    (Returned /\ fill_mode = "Span") =>
        /\ Len(surfaces) = Cardinality(Groups)
        /\ \A g \in Groups :
              Cardinality({ j \in DOMAIN surfaces :
                              Rectangle(surfaces[j]) = BoundingBox(g) })
              = Cardinality({ h \in Groups : BoundingBox(h) = BoundingBox(g) })

(***************************************************************************)
(* C4. Span never merges different sizes.                                  *)
(***************************************************************************)
\* C4: under Span a monitor whose size no other monitor has appears in the
\* output unchanged (position, size, scale factor, wallpaper); two monitors of
\* differing size yield two unchanged surfaces.
C4_SpanKeepsOddSize ==
    (Returned /\ fill_mode = "Span") =>
        /\ \A i \in Indices :
              SameSize(i) = {i} => \E j \in DOMAIN surfaces : surfaces[j] = Alone(i)
        /\ (Len(monitors) = 2 /\ Handle(1).size /= Handle(2).size) =>
              /\ Len(surfaces) = 2
              /\ {surfaces[1], surfaces[2]} = {Alone(1), Alone(2)}

\* Span has returned for three monitors: two of one size, which overlap the
\* third, and the third of another size.
C4_Witness ==
    /\ Returned
    /\ fill_mode = "Span"
    /\ Len(monitors) = 3
    /\ \E i \in Indices :
          /\ SameSize(i) = {i}
          /\ \E j \in Indices \ {i} : Handle(j).position = Handle(i).position

(***************************************************************************)
(* C5. Identity under None.                                                *)
(***************************************************************************)
\* C5: under None build returns exactly one surface per monitor, equal to it in
\* position, size, scale factor and wallpaper; nothing is merged.
C5_IdentityUnderNone ==
    (Returned /\ fill_mode = "None") =>
        /\ Len(surfaces) = Len(monitors)
        /\ \A i \in Indices :
              Cardinality({ j \in DOMAIN surfaces : surfaces[j] = Alone(i) })
              = Cardinality({ k \in Indices : Alone(k) = Alone(i) })

\* None has returned for three monitors, two of them of the same size and of
\* differing scale factor and wallpaper.
C5_Witness ==
    /\ Returned
    /\ fill_mode = "None"
    /\ Len(monitors) = 3
    /\ \E i, j \in Indices :
          /\ i /= j
          /\ Handle(i).size = Handle(j).size
          /\ Handle(i).scale_factor /= Handle(j).scale_factor
          /\ monitors[i][2] /= monitors[j][2]

(***************************************************************************)
(* C6. Determinism.                                                        *)
(***************************************************************************)
\* C6: a second run of build on the same monitors and fill mode returns the
\* list the first run returned, the same surfaces in the same order.
C6_SecondRunIdentical == pc = "rebuilt" => previous = <<surfaces>>

(***************************************************************************)
(* C7. Totality.                                                           *)
(***************************************************************************)
\* C7: build never panics and none of its additions overflows, whatever the
\* monitors and the fill mode.
C7_NeverFails ==
    pc /= "enumerate" => (~panicked /\ ~BuildOverflows(monitors, fill_mode))

C9_FillKeepsFirst ==
    (Returned /\ fill_mode = "Fill" /\ monitors /= <<>>) =>
        /\ Len(surfaces) = 1
        /\ surfaces[1].scale_factor = Handle(1).scale_factor
        /\ surfaces[1].wallpaper = monitors[1][2]

\* Fill has returned for monitors whose last differs from the first in scale
\* factor and in wallpaper.
C9_Witness ==
    /\ Returned
    /\ fill_mode = "Fill"
    /\ Len(monitors) >= 2
    /\ Handle(Len(monitors)).scale_factor /= Handle(1).scale_factor
    /\ monitors[Len(monitors)][2] /= monitors[1][2]

(***************************************************************************)
(* C10. Left-biased attribution under Span.                                *)
(***************************************************************************)
\* What identifies the surface of the size group g: its top-left corner, and
\* the scale factor and wallpaper of the group's first monitor.
Attribution(g) ==
    [ position     |-> BoundingBox(g).position,
      scale_factor |-> Handle(First(g)).scale_factor,
      wallpaper    |-> monitors[First(g)][2] ]

Attributed(s) ==
    [ position     |-> s.position,
      scale_factor |-> s.scale_factor,
      wallpaper    |-> s.wallpaper ]

C11_PositiveSize ==
    (Returned /\ \A i \in Indices : Handle(i).size.width > 0 /\ Handle(i).size.height > 0)
        => \A j \in DOMAIN surfaces :
              surfaces[j].size.width > 0 /\ surfaces[j].size.height > 0

(***************************************************************************)
(* C13. Empty input.                                                       *)
(***************************************************************************)
\* C13: under each fill mode build returns the empty list for the empty
\* monitor list; Fill returns no surface of zero geometry.
C13_EmptyInput ==
    (pc /= "enumerate" /\ monitors = <<>>) => (~panicked /\ surfaces = <<>>)

\* Fill has run on the empty monitor list.
C13_Witness == pc = "built" /\ monitors = <<>> /\ fill_mode = "Fill"

(***************************************************************************)
(* C14. Single monitor.                                                    *)
(***************************************************************************)
\* C14: for one monitor build returns, under each fill mode, exactly one
\* surface, with the monitor's position, size, scale factor and wallpaper.
C14_SingleMonitor ==
    (pc /= "enumerate" /\ Len(monitors) = 1) =>
        /\ ~panicked
        /\ Len(surfaces) = 1
        /\ surfaces[1].position = Handle(1).position
        /\ surfaces[1].size = Handle(1).size
        /\ surfaces[1].scale_factor = Handle(1).scale_factor
        /\ surfaces[1].wallpaper = monitors[1][2]

\* Span has run on a single display at scale 2.0 that has a wallpaper.
C14_Witness ==
    /\ pc = "built"
    /\ Len(monitors) = 1
    /\ fill_mode = "Span"
    /\ Handle(1).scale_factor = 2
    /\ monitors[1][2] /= <<>>

(***************************************************************************)
(* C16. No mutation of the input.                                          *)
(***************************************************************************)
\* C16: a run of build, under every fill mode, leaves the monitor list as it
\* was: the same descriptors and wallpapers in the same order.
C16_MonitorsUntouched ==
    [][(pc' /= pc /\ pc' \in {"built", "rebuilt"}) => monitors' = monitors]_vars

\* build has merged monitors into fewer surfaces, and the monitors are there.
C16_Witness ==
    /\ Returned
    /\ fill_mode \in {"Span", "Fill"}
    /\ Len(monitors) >= 2
    /\ Len(surfaces) < Len(monitors)

(***************************************************************************)
(* C12. Merge geometry is associative and commutative.                     *)
(***************************************************************************)
\* C12: merging b then c into a gives the position and size of merging into a
\* the merge of c into b, and merging b into a gives the position and size of
\* merging a into b.
C12_MergeAssociativeCommutative ==
    (pc = "merged" /\ ~panicked) =>
        /\ Rectangle(merged.ab_c) = Rectangle(merged.a_bc)
        /\ Rectangle(merged.ab) = Rectangle(merged.ba)

(***************************************************************************)
(* C15. Merge corner order.                                                *)
(***************************************************************************)
\* C15: in every merge bottom_right is componentwise >= top_left, so the size
\* stored (the absolute difference) is bottom_right - top_left.
C15_CornersOrdered ==
    (pc = "merged" /\ ~panicked) =>
        /\ merged.bottom_right.x >= merged.top_left.x
        /\ merged.bottom_right.y >= merged.top_left.y
        /\ merged.ab.size.width = merged.bottom_right.x - merged.top_left.x
        /\ merged.ab.size.height = merged.bottom_right.y - merged.top_left.y

(***************************************************************************)
(* C17. One render instance per surface.                                   *)
(***************************************************************************)
\* The instances made for surface i.
InstancesOf(i) == { id \in DOMAIN instances : instances[id] = i }

\* C17: when the screensaver is in its main loop there is exactly one instance
\* for each surface build returned and no other; when new_instance fails
\* run_flux has returned that error and the loop was never entered.
C17_OneInstancePerSurface ==
    /\ (run_mode = "Screensaver" /\ entered) =>
          /\ \A i \in DOMAIN surfaces : Cardinality(InstancesOf(i)) = 1
          /\ \A id \in DOMAIN instances : instances[id] \in DOMAIN surfaces
    /\ result = "Err(new_instance)" => (pc = "done" /\ ~entered)
    /\ (run_mode = "Screensaver" /\ pc = "built" /\ created < Len(surfaces)) => ~entered

\* The main loop runs with the instances of two surfaces.
C17_Witness ==
    /\ run_mode = "Screensaver"
    /\ pc = "poll"
    /\ Len(surfaces) = 2
    /\ Cardinality(DOMAIN instances) = 2

(***************************************************************************)
(* C18. One draw per surface per tick.                                     *)
(***************************************************************************)
\* C18: an iteration of the main loop that polled no exit event draws every
\* instance exactly once, whatever the draws of the other instances returned:
\* during the draws each instance has been drawn once or is still to be drawn,
\* and the iteration ends only when none is left.
C18_OneDrawPerTick ==
    /\ [](pc = "draw" =>
            \A id \in DOMAIN instances : drawn[id] = IF id \in todo THEN 0 ELSE 1)
    /\ [][(pc = "draw" /\ pc' /= "draw") =>
            /\ pc' = "poll"
            /\ \A id \in DOMAIN instances : drawn'[id] = 1]_vars
    /\ [][(pc = "poll" /\ last_event' = NoEvent /\ DOMAIN instances /= {}) =>
            pc' = "draw"]_vars

\* An iteration over two instances is over: one draw failed, one did not.
C18_Witness ==
    /\ run_mode = "Screensaver"
    /\ pc = "poll"
    /\ \E id1, id2 \in DOMAIN drawn :
          /\ errors[id1] = 1 /\ drawn[id1] = 1
          /\ errors[id2] = 0 /\ drawn[id2] = 1

(***************************************************************************)
(* C19. Screensaver exit.                                                  *)
(***************************************************************************)
\* The exit events as the documentation of the loop names them, with the
\* absolute value of the integers.
Magnitude(n) == IF n < 0 THEN -n ELSE n

ExitEvent(event) ==
    \/ event.type \in {"Quit", "WindowClose", "KeyDown", "MouseButtonDown"}
    \/ /\ event.type = "MouseMotion"
       /\ Max(Magnitude(event.xrel), Magnitude(event.yrel)) > 10

\* C19: the main loop has ended exactly when the event it polled last is a
\* Quit, a window Close, a KeyDown, a MouseButtonDown or a MouseMotion with
\* max(|xrel|, |yrel|) > 10; after every other event it is still running.
C19_ExitEvents ==
    (run_mode = "Screensaver" /\ entered) => (ExitEvent(last_event) <=> pc = "done")

(***************************************************************************)
(* C20. Draw failure is not fatal.                                         *)
(***************************************************************************)
\* C20: a draw that returns an error is logged and the loop (main or preview)
\* goes on: to the next instance of the iteration or to the next poll, with
\* nothing returned; the loop ends only on an exit event, and returns Ok.
C20_DrawFailureNotFatal ==
    /\ [][(pc = "draw" /\ errors' /= errors) =>
            /\ pc' = (IF todo' = {} THEN "poll" ELSE "draw")
            /\ result' = "none"
            /\ \E id \in todo : todo' = todo \ {id} /\ errors'[id] = errors[id] + 1]_vars
    /\ []((entered /\ pc = "done" /\ ~panicked) =>
            (result = "Ok" /\ ExitsLoop(last_event)))
    /\ []((entered /\ result /= "none") => (result = "Ok" /\ pc = "done"))

\* Every draw of an iteration over two instances failed, and the loop polls.
C20_Witness ==
    /\ pc = "poll"
    /\ result = "none"
    /\ Cardinality(DOMAIN errors) = 2
    /\ \A id \in DOMAIN errors : errors[id] = 1 /\ drawn[id] = 1

(***************************************************************************)
(* C24. Coverage.                                                          *)
(***************************************************************************)
\* The right and bottom edges of every monitor are i32 coordinates.
InRange ==
    \A i \in Indices :
        /\ Handle(i).position.x + Handle(i).size.width <= IntMax
        /\ Handle(i).position.y + Handle(i).size.height <= IntMax

\* The rectangle of surface s contains the rectangle of monitor i.
Covers(s, i) ==
    /\ s.position.x <= Handle(i).position.x
    /\ s.position.y <= Handle(i).position.y
    /\ Handle(i).position.x + Handle(i).size.width <= s.position.x + s.size.width
    /\ Handle(i).position.y + Handle(i).size.height <= s.position.y + s.size.height

\* C24: under every fill mode, when the monitors' coordinates are in range,
\* the rectangle of each monitor lies inside the rectangle of some returned
\* surface.
C24_Coverage ==
    (Returned /\ InRange) =>
        \A i \in Indices : \E j \in DOMAIN surfaces : Covers(surfaces[j], i)

\* Span has merged three in-range monitors at three positions into fewer
\* surfaces.
C24_Witness ==
    /\ Returned
    /\ InRange
    /\ fill_mode = "Span"
    /\ Len(monitors) = 3
    /\ Len(surfaces) < 3
    /\ Cardinality({ Handle(i).position : i \in Indices }) = 3

(***************************************************************************)
(* C25. Input-order independence of geometry.                              *)
(***************************************************************************)
RectangleSet(ss) == { Rectangle(ss[i]) : i \in DOMAIN ss }

\* C25: under Fill and under Span, the same monitors in another order give
\* the same set of output rectangles (position and size).
C25_OrderIndependent ==
    (pc = "rebuilt" /\ ~panicked /\ fill_mode \in {"Span", "Fill"}) =>
        RectangleSet(surfaces) = RectangleSet(previous[1])

(***************************************************************************)
(* C21. Config version dispatch.                                           *)
(***************************************************************************)
\* The rest of the document is a valid document of the old format, of the
\* current format.
OldFormatValid(doc) == V1LogLevel(doc).ok /\ V1ColorMode(doc).ok

CurrentFormatValid(doc) == V2LogLevel(doc).ok /\ V2ColorMode(doc).ok /\ V2FillMode(doc).ok

\* C21: from_string reads "version" as a string. A missing or non-string
\* version gives DecodeSettings; "0.1.0" gives the old format upgraded (the
\* latest version, the document's log level and color mode, the default
\* platform, no location); "2" gives the config the current format holds;
\* any other string gives UnsupportedVersion.
C21_VersionDispatch ==
    (pc \in {"loaded", "reloaded"} /\ decoded /= None /\ file.text[1].json) =>
        LET doc == file.text[1]
            r   == decoded[1]
        IN  /\ doc.version.t /= "string" => r = Err("DecodeSettings")
            /\ (doc.version = Str("0.1.0") /\ OldFormatValid(doc)) =>
                  /\ r.ok
                  /\ r.value[1].version = LATEST_VERSION
                  /\ r.value[1].log_level = V1LogLevel(doc).value[1]
                  /\ r.value[1].flux.color_mode.mode = V1ColorMode(doc).value[1].mode
                  /\ r.value[1].flux.color_mode.preset_name
                        = V1ColorMode(doc).value[1].preset
                  /\ r.value[1].platform = DefaultConfig.platform
                  /\ r.value[1].location = None
            /\ (doc.version = Str("2") /\ CurrentFormatValid(doc)) =>
                  /\ r.ok
                  /\ r.value[1].log_level = V2LogLevel(doc).value[1]
                  /\ r.value[1].flux.color_mode = V2ColorMode(doc).value[1]
                  /\ r.value[1].platform.windows.fill_mode = V2FillMode(doc).value[1]
            /\ (doc.version.t = "string" /\ doc.version.v \notin {"0.1.0", "2"}) =>
                  r = Err("UnsupportedVersion")

(***************************************************************************)
(* C22. Config save/load round trip.                                       *)
(***************************************************************************)
\* C22: the config that save wrote is what the next load from the same
\* directory returns: the same version, log level, color mode and platform
\* settings.
C22_SaveLoadRoundTrip ==
    (pc = "reloaded" /\ saved /= None) =>
        /\ config[1].version = saved[1].version
        /\ config[1].log_level = saved[1].log_level
        /\ config[1].flux = saved[1].flux
        /\ config[1].platform = saved[1].platform

(***************************************************************************)
(* C23. Config::load never fails.                                          *)
(***************************************************************************)
\* The settings of a config: everything but its location.
Settings(c) == [c EXCEPT !.location = None]

\* C23: load returns a config in every case. Without a directory it is the
\* default config, without a location. With a directory it is the config
\* from_string decoded, or the default config when the file is missing,
\* unreadable, undecodable or of an unsupported version, and its location is
\* <dir>/settings.json.
C23_LoadNeverFails ==
    (pc \in {"loaded", "reloaded"}) =>
        /\ Len(config) = 1
        /\ config_dir = None => config[1] = DefaultConfig
        /\ config_dir /= None =>
              /\ config[1].location = Some(<<config_dir[1], "settings.json">>)
              /\ (decoded /= None /\ decoded[1].ok) =>
                    Settings(config[1]) = Settings(decoded[1].value[1])
              /\ (problem \in {"ReadSettings NotFound", "ReadSettings", "DecodeSettings",
                                "UnsupportedVersion"}) =>
                    Settings(config[1]) = DefaultConfig

\* load has found a settings file of an unsupported version.
C23_Witness ==
    /\ pc = "loaded"
    /\ config_dir /= None
    /\ problem = "UnsupportedVersion"
    /\ config[1].location /= None
====
